---- MODULE Spec2Model ----
(***************************************************************************)
(* A model of the mainloop orchestrator: the worker-task workflow          *)
(* (backend/src/mainloop/workflows/worker.py), the HTTP handlers that talk *)
(* to it (backend/src/mainloop/api.py), the executor-job callback and the  *)
(* per-user main-thread workflow (workflows/main_thread.py).               *)
(*                                                                         *)
(* One WorkerTask row, its worker workflow, the four topics of that        *)
(* workflow, the main-thread's message queue and the forge artifacts of    *)
(* the task are the state.  Every durable step, recv and sleep of the      *)
(* workflow is a position (wf.pc); an HTTP handler is a short process of   *)
(* its own, with one step per await.                                       *)
(*                                                                         *)
(* Values are abstracted to what the control flow tests: a text or number  *)
(* field is TRUE when set and FALSE when None, an error is its kind.       *)
(***************************************************************************)
EXTENDS Integers, Sequences, FiniteSets, TLC

\* ------------------------------------------------------------------ constants

\* worker.py: MAX_CI_ITERATIONS = 5 inside worker_task_workflow
MAX_CI_ITERATIONS == 5
\* worker.py: MAX_JOB_RETRIES = 5
MAX_JOB_RETRIES == 5

\* ------------------------------------------------------------------ bounds

\* what the user does in one behaviour: HTTP requests, and comments and
\* reactions on the plan issue
MaxUserActions == 2
\* plan-job rounds the environment asks for (questions, revisions)
MaxPlanRounds == 2
\* executor jobs that fail or stay silent in one behaviour
MaxJobFaults == 1
\* job faults in the runs that follow one job call through all its attempts
MaxRetryFaults == 5
\* review comments left on the pull request in one behaviour
MaxFeedback == 1
\* calls of get_or_start_main_thread in one behaviour
MaxStarts == 2
\* messages sent to a main thread by others than the modelled worker
MaxSends == 2

\* ------------------------------------------------------------------ state

\* worker.py PLAN_REVIEW_TIMEOUT_SECONDS, and the poll_interval and
\* max_poll_interval the two polling loops start with
PLAN_REVIEW_TIMEOUT_SECONDS == 86400
INITIAL_POLL_INTERVAL == 10
max_poll_interval == 300
\* Times are counted in ticks of 1/256 s: poll_interval * 1.5 is a whole
\* number of ticks at every step up to the cap, as it is an exact float.
TicksPerSecond == 256

VARIABLES
    task,      \* the worker_tasks row
    wf,        \* the worker workflow: durable status, position and locals
    topics,    \* DBOS notifications of the worker workflow, one FIFO per topic
    mtInbox,   \* DBOS notifications of the main-thread workflow of the task's user
    inbox,     \* queue_items rows written by the main thread (their kinds)
    api,       \* HTTP requests in flight
    jobs,      \* executor jobs that have not yet finished their callback
    forge,     \* issue, plan comment, pull request
    hist,      \* what an observer of the row has seen (not program state)
    mt,        \* workflow_status rows of the main-thread workflows
    bus,       \* EventBus._user_queues of the task's user: the subscriber queues
    branch     \* a description, a task type and the branch name generated for them

vars == <<task, wf, topics, mtInbox, inbox, api, jobs, forge, hist, mt, bus, branch>>

TOPIC_JOB_RESULT == "job_result"
TOPIC_PLAN_RESPONSE == "plan_response"
TOPIC_QUESTION_RESPONSE == "question_response"
TOPIC_START_IMPLEMENTATION == "start_implementation"
\* the topic of a DBOS.send that names none
TOPIC_DEFAULT == "default"

Topics == {TOPIC_JOB_RESULT, TOPIC_PLAN_RESPONSE, TOPIC_QUESTION_RESPONSE,
           TOPIC_START_IMPLEMENTATION, TOPIC_DEFAULT}

TaskStatus == {"pending", "planning", "waiting_questions", "waiting_plan_review",
               "ready_to_implement", "implementing", "under_review",
               "completed", "failed", "cancelled"}

Terminal == {"completed", "failed", "cancelled"}

Users == {"u1", "u2"}

\* the owner of the modelled task
TaskUser == "u1"

\* ------------------------------------------------------------------ storage

\* db.update_worker_task: a keyword that is None is left out of the UPDATE;
\* upd holds the keywords that are not None.
update_worker_task(t, upd) ==
    [k \in DOMAIN t |-> IF k \in DOMAIN upd THEN upd[k] ELSE t[k]]

\* What an observer of the row has seen once it holds t: hist counts the
\* entries into ready_to_implement and, where hist.tracing says so, lists the
\* statuses in the order in which they replaced one another.
Observe(t) ==
    [hist EXCEPT !.nReady = IF t.status = "ready_to_implement"
                               /\ task.status # "ready_to_implement"
                            THEN @ + 1 ELSE @,
                 !.statuses = IF hist.tracing /\ t.status # task.status
                              THEN Append(@, t.status) ELSE @]

Write(upd) ==
    /\ task' = update_worker_task(task, upd)
    /\ hist' = Observe(update_worker_task(task, upd))

\* notify_main_thread: DBOS.send to main-thread-<user_id>
notify_main_thread(status) ==
    mtInbox' = Append(mtInbox, [type |-> "worker_result", status |-> status,
                                error |-> IF status = "failed" THEN wf.err ELSE "none"])

\* ------------------------------------------------------------------ initial state

\* get_or_start_main_thread: SetWorkflowID(f"main-thread-{user_id}")
MainThreadWorkflowIdPerCall(u) == <<"main-thread", u, hist.nreq>>
MainThreadWorkflowId(u) == <<"main-thread", u>>

\* the row DBOS.start_workflow(main_thread_workflow, user_id) makes
MainThreadRow(u) ==
    [workflow_id |-> MainThreadWorkflowId(u), user_id |-> u, status |-> "running"]

FreshWorkflow ==
    [status |-> "enqueued", pc |-> "start", ret |-> "none", mode |-> "none",
     attempt |-> 0, backoffs |-> <<>>,
     poll_interval |-> INITIAL_POLL_INTERVAL * TicksPerSecond, total_wait |-> 0,
     plan_iteration |-> 0, plan_text |-> FALSE,
     questions |-> FALSE, user_answers |-> FALSE, plan_comment_id |-> FALSE,
     response |-> "none", source |-> "none",
     issue_number |-> FALSE, pr_number |-> FALSE,
     ci_iteration |-> 0, feedback_iteration |-> 0, resumed |-> FALSE,
     err |-> "none", waits |-> 0, sandbox |-> FALSE, cleanups |-> 0,
     loaded_terminal |-> FALSE]

\* A task as main_thread.handle_user_message / chat_handler create it
\* (status pending) or as planning.approve_plan creates it (ready_to_implement,
\* skip_plan, plan and issue already there).
NewTasks ==
    { [status |-> "pending", pending_questions |-> FALSE, issue_number |-> FALSE,
       pr_number |-> FALSE, branch_name |-> FALSE, plan_text |-> FALSE,
       error |-> "none", result |-> FALSE, skip_plan |-> sp] : sp \in BOOLEAN }
    \cup
    { [status |-> "ready_to_implement", pending_questions |-> FALSE,
       issue_number |-> TRUE, pr_number |-> FALSE, branch_name |-> FALSE,
       plan_text |-> TRUE, error |-> "none", result |-> FALSE, skip_plan |-> TRUE] }

InitForge(t) ==
    [issue |-> IF t.issue_number THEN "open" ELSE "none",
     reaction |-> FALSE, command |-> "none", answers |-> FALSE,
     pr |-> "none", feedback |-> FALSE]

\* the modes of an executor job; the mark of a mode no job was created in
Modes == {"plan", "implement", "fix", "feedback"}
NotLaunched == -1

InitHist ==
    [nReady |-> 0,
     nreq |-> 0, faults |-> 0, faultBudget |-> MaxJobFaults, clocked |-> FALSE,
     cancelTask |-> FALSE, nfeedback |-> 0, nsent |-> 0, nFix |-> 0,
     launched |-> [mode \in Modes |-> NotLaunched],
     polledAfterFix |-> TRUE, teardownFaults |-> FALSE,
     tracing |-> FALSE, statuses |-> <<>>, tagging |-> FALSE, unhandled |-> FALSE]

Init ==
    /\ task \in NewTasks
    /\ wf = FreshWorkflow
    /\ topics = [t \in Topics |-> <<>>]
    /\ mtInbox = <<>>
    /\ inbox = <<>>
    /\ api = {}
    /\ jobs = {}
    /\ forge = InitForge(task)
    /\ hist = InitHist
    /\ mt = {MainThreadRow(TaskUser)}
    /\ bus = <<>>
    /\ branch = <<>>

\* ------------------------------------------------------------------ worker workflow
\* worker.py worker_task_workflow, one action per durable step / recv / sleep.

Running == wf.status = "running"

Goto(pc) == [wf EXCEPT !.pc = pc]

\* raise RuntimeError(...) inside the try: control goes to the except clause
Raise(w, kind) == [w EXCEPT !.pc = "except", !.err = kind]

\* run_job_with_retry(spawn_fn, ...): attempt 1 of a job of `mode`, then `ret`
CallJob(w, mode, ret) ==
    [w EXCEPT !.pc = "job_spawn", !.mode = mode, !.ret = ret, !.attempt = 1,
              !.backoffs = <<>>]

\* the queue runner dequeues the workflow; load_worker_task; the branch on
\* task.pr_url / task.pr_number  (wf.loaded_terminal: the status of the row
\* loaded is completed, failed or cancelled)
WorkflowStart ==
    /\ wf.status = "enqueued"
    /\ wf' = [wf EXCEPT !.status = "running",
                        !.pc = IF task.pr_number THEN "resume_setup" ELSE "setup",
                        !.pr_number = task.pr_number,
                        !.loaded_terminal = task.status \in Terminal]
    /\ UNCHANGED <<task, topics, mtInbox, inbox, api, jobs, forge, hist, mt, bus, branch>>

\* resume path: setup_namespace, then UNDER_REVIEW and _run_code_review_loop
ResumeSetup ==
    /\ Running /\ wf.pc = "resume_setup"
    /\ wf' = [wf EXCEPT !.pc = "resume_write", !.sandbox = TRUE]
    /\ UNCHANGED <<task, topics, mtInbox, inbox, api, jobs, forge, hist, mt, bus, branch>>

\* (ResumeWriteSinceNow: the loop entered with last_check = now, as PHASE 3 of
\* the main path enters it)
ResumeWriteSinceNow ==
    /\ Running /\ wf.pc = "resume_write"
    /\ Write([status |-> "under_review", pr_number |-> TRUE])
    /\ forge' = [forge EXCEPT !.feedback = FALSE]
    /\ wf' = [wf EXCEPT !.pc = "review_sleep", !.resumed = TRUE]
    /\ UNCHANGED <<topics, mtInbox, inbox, api, jobs, mt, bus, branch>>

\* _run_code_review_loop(since=None): last_check = task.created_at, every
\* comment made since the task was created is newer than it
ResumeWrite ==
    /\ Running /\ wf.pc = "resume_write"
    /\ Write([status |-> "under_review", pr_number |-> TRUE])
    /\ wf' = [wf EXCEPT !.pc = "review_sleep", !.resumed = TRUE]
    /\ UNCHANGED <<topics, mtInbox, inbox, api, jobs, forge, mt, bus, branch>>

\* setup_namespace; then the branch on task.skip_plan
SetupNamespace ==
    /\ Running /\ wf.pc = "setup"
    /\ wf' = [wf EXCEPT !.sandbox = TRUE,
                        !.pc = IF task.skip_plan THEN "implementing" ELSE "planning"]
    /\ UNCHANGED <<task, topics, mtInbox, inbox, api, jobs, forge, hist, mt, bus, branch>>

\* update_worker_task_status(PLANNING)
PlanningWrite ==
    /\ Running /\ wf.pc = "planning"
    /\ Write([status |-> "planning"])
    /\ wf' = Goto("create_issue")
    /\ UNCHANGED <<topics, mtInbox, inbox, api, jobs, forge, mt, bus, branch>>

\* create_github_issue_step: the issue, or None and RuntimeError
CreateIssue ==
    /\ Running /\ wf.pc = "create_issue"
    /\ \/ /\ forge' = [forge EXCEPT !.issue = "open"]
          /\ wf' = [wf EXCEPT !.pc = "issue_write", !.issue_number = TRUE]
       \/ /\ wf' = Raise(wf, "issue")
          /\ UNCHANGED forge
    /\ UNCHANGED <<task, topics, mtInbox, inbox, api, jobs, hist, mt, bus, branch>>

\* update_worker_task_status(PLANNING, issue_url, issue_number); first comment
IssueWrite ==
    /\ Running /\ wf.pc = "issue_write"
    /\ Write([status |-> "planning", issue_number |-> TRUE])
    /\ wf' = Goto("plan_loop")
    /\ UNCHANGED <<topics, mtInbox, inbox, api, jobs, forge, mt, bus, branch>>

\* head of the plan loop: plan_iteration += 1, run_job_with_retry(spawn_plan_job)
PlanLoop ==
    /\ Running /\ wf.pc = "plan_loop"
    /\ wf.plan_iteration < MaxPlanRounds
    /\ wf' = CallJob([wf EXCEPT !.plan_iteration = @ + 1], "plan", "plan_result")
    /\ UNCHANGED <<task, topics, mtInbox, inbox, api, jobs, forge, hist, mt, bus, branch>>

\* iteration handed to create_worker_job by the spawn_* step of the mode
JobIteration(w) ==
    CASE w.mode = "plan" -> w.plan_iteration
      [] w.mode = "fix" -> w.ci_iteration
      [] w.mode = "feedback" -> w.feedback_iteration
      [] OTHER -> 0

\* create_worker_job: the job name is (mode, iteration); a job of that name
\* that is still running answers 409 and is left as it is.
\* (launch: the mode, iteration and attempt of run_job_with_retry the job is
\* launched for, followed when hist.tagging; the program keeps no such record)
create_worker_job(js, mode, iteration) ==
    js \cup {[mode |-> mode, iteration |-> iteration, stage |-> "running",
              msg |-> <<>>, posts |-> 0,
              launch |-> IF hist.tagging THEN <<mode, iteration, wf.attempt>> ELSE <<>>]}

\* a job may fail or stay silent: within the budget of the behaviour, and
\* the faults of one behaviour fall into one run_job_with_retry call, on its
\* successive attempts
FaultAllowed ==
    /\ hist.faults < hist.faultBudget
    /\ hist.faults = 0 \/ hist.faults = wf.attempt - 1

\* run_job_with_retry: await spawn_fn()
\* (hist.launched[mode]: the iteration of the last job created in the mode)
JobSpawn ==
    /\ Running /\ wf.pc = "job_spawn"
    /\ IF \E j \in jobs : j.mode = wf.mode /\ j.iteration = JobIteration(wf)
       THEN UNCHANGED <<jobs, hist>>
       ELSE /\ jobs' = create_worker_job(jobs, wf.mode, JobIteration(wf))
            /\ hist' = [hist EXCEPT !.launched[wf.mode] = JobIteration(wf)]
    /\ wf' = Goto("job_wait")
    /\ UNCHANGED <<task, topics, mtInbox, inbox, api, forge, mt, bus, branch>>

\* run_job_with_retry after a failed or silent attempt: sleep 2^attempt and
\* spawn again, or RuntimeError when attempt = max_retries
\* (w.backoffs: the delays slept so far in this call, in order)
RetryGuard(w) == w.attempt < MAX_JOB_RETRIES

\* backoff_seconds = 2 ** attempt
backoff_seconds(attempt) == 2 ^ attempt

JobRetry(w) ==
    IF RetryGuard(w)
    THEN [w EXCEPT !.pc = "job_spawn", !.attempt = @ + 1,
                   !.backoffs = Append(@, backoff_seconds(w.attempt))]
    ELSE Raise(w, "job")

\* recv_async(TOPIC_JOB_RESULT) returns a message
JobRecv ==
    /\ Running /\ wf.pc = "job_wait"
    /\ topics[TOPIC_JOB_RESULT] # <<>>
    /\ LET result == Head(topics[TOPIC_JOB_RESULT]) IN
       /\ topics' = [topics EXCEPT ![TOPIC_JOB_RESULT] = Tail(@)]
       /\ wf' = IF result.status = "failed"
                THEN JobRetry(wf)
                ELSE [wf EXCEPT !.pc = wf.ret,
                                !.plan_text = IF wf.mode = "plan"
                                              THEN result.plan_text ELSE @,
                                !.questions = IF wf.mode = "plan"
                                              THEN result.questions ELSE @,
                                !.pr_number = IF wf.mode = "implement" /\ wf.resumed = FALSE
                                                 /\ task.skip_plan
                                              THEN result.pr_url ELSE @]
    /\ UNCHANGED <<task, mtInbox, inbox, api, jobs, forge, hist, mt, bus, branch>>

\* recv_async(TOPIC_JOB_RESULT, timeout_seconds=JOB_TIMEOUT_SECONDS) returns None
JobTimeout ==
    /\ Running /\ wf.pc = "job_wait"
    /\ topics[TOPIC_JOB_RESULT] = <<>>
    /\ FaultAllowed
    /\ hist' = [hist EXCEPT !.faults = @ + 1]
    /\ wf' = JobRetry(wf)
    /\ UNCHANGED <<task, topics, mtInbox, inbox, api, jobs, forge, mt, bus, branch>>

\* after the plan job: no plan text is an error; questions open the question
\* sub-phase (WAITING_QUESTIONS is written), none goes on to the plan review
PlanResult ==
    /\ Running /\ wf.pc = "plan_result"
    /\ IF ~wf.plan_text
       THEN /\ wf' = Raise(wf, "noplan")
            /\ UNCHANGED <<task, hist>>
       ELSE IF wf.questions
       THEN /\ Write([status |-> "waiting_questions", pending_questions |-> TRUE,
                      plan_text |-> TRUE])
            /\ wf' = [wf EXCEPT !.pc = "post_questions", !.waits = @ + 1]
       ELSE /\ wf' = Goto("post_plan")
            /\ UNCHANGED <<task, hist>>
    /\ UNCHANGED <<topics, mtInbox, inbox, api, jobs, forge, mt, bus, branch>>

\* poll_interval = 10, total_wait = 0 before a polling loop
StartClock(w) ==
    [w EXCEPT !.poll_interval = INITIAL_POLL_INTERVAL * TicksPerSecond,
              !.total_wait = 0]

\* poll_interval * 1.5, capped
GrowUncapped(poll_interval) == (poll_interval * 3) \div 2
Grow(poll_interval) ==
    IF (poll_interval * 3) \div 2 < max_poll_interval * TicksPerSecond
    THEN (poll_interval * 3) \div 2
    ELSE max_poll_interval * TicksPerSecond

\* (PollAgain: a loop that polls on whatever the time)
PollAgain(w, poll) == {[w EXCEPT !.pc = poll]}

\* the end of a pass of a polling loop that found nothing:
\*   total_wait += poll_interval; poll_interval = min(poll_interval * 1.5, max)
\* and `while total_wait < PLAN_REVIEW_TIMEOUT_SECONDS`, RuntimeError after the
\* loop.  A behaviour that does not follow the clock (hist.clocked false)
\* leaves the two variables alone and lets the loop give up after any pass.
PollFailed(w, poll) ==
    IF hist.clocked
    THEN LET waited == [w EXCEPT !.total_wait = @ + w.poll_interval,
                                 !.poll_interval = Grow(@)]
         IN  IF waited.total_wait < PLAN_REVIEW_TIMEOUT_SECONDS * TicksPerSecond
             THEN {[waited EXCEPT !.pc = poll]}
             ELSE {Raise(waited, "timeout")}
    ELSE {[w EXCEPT !.pc = poll], Raise(w, "timeout")}

\* post_questions_to_issue, notify "questions", questions_posted_at = now
PostQuestions ==
    /\ Running /\ wf.pc = "post_questions"
    /\ forge' = [forge EXCEPT !.answers = FALSE]
    /\ notify_main_thread("questions")
    /\ wf' = [StartClock(wf) EXCEPT !.pc = "questions_poll", !.response = "none",
                                    !.source = "none"]
    /\ UNCHANGED <<task, topics, inbox, api, jobs, hist, mt, bus, branch>>

\* recv_async(TOPIC_QUESTION_RESPONSE, poll_interval) returns a message
QuestionsRecv ==
    /\ Running /\ wf.pc = "questions_poll"
    /\ topics[TOPIC_QUESTION_RESPONSE] # <<>>
    /\ LET m == Head(topics[TOPIC_QUESTION_RESPONSE]) IN
       /\ wf' = [wf EXCEPT !.pc = "questions_decide", !.response = m.action,
                           !.source = "ui"]
    /\ topics' = [topics EXCEPT ![TOPIC_QUESTION_RESPONSE] = Tail(@)]
    /\ UNCHANGED <<task, mtInbox, inbox, api, jobs, forge, hist, mt, bus, branch>>

\* the recv timed out
QuestionsRecvTimeout ==
    /\ Running /\ wf.pc = "questions_poll"
    /\ topics[TOPIC_QUESTION_RESPONSE] = <<>>
    /\ wf' = Goto("questions_forge")
    /\ UNCHANGED <<task, topics, mtInbox, inbox, api, jobs, forge, hist, mt, bus, branch>>

\* check_issue_for_question_answers; no answer: back to the recv, or the
\* 24 hours are over and RuntimeError
QuestionsForge ==
    /\ Running /\ wf.pc = "questions_forge"
    /\ IF forge.answers
       THEN wf' = [wf EXCEPT !.pc = "questions_decide", !.response = "answer",
                             !.source = "github"]
       ELSE wf' \in PollFailed(wf, "questions_poll")
    /\ UNCHANGED <<task, topics, mtInbox, inbox, api, jobs, forge, hist, mt, bus, branch>>

\* the response: cancel writes CANCELLED; an answer is merged into the issue
\* body and PLANNING with pending_questions=[] is written
QuestionsDecide ==
    /\ Running /\ wf.pc = "questions_decide"
    /\ IF wf.response = "cancel"
       THEN /\ Write([status |-> "cancelled"])
            /\ wf' = Goto("cancel_close")
       ELSE /\ Write([status |-> "planning", pending_questions |-> FALSE])
            /\ wf' = [wf EXCEPT !.pc = "plan_loop", !.user_answers = TRUE]
    /\ UNCHANGED <<topics, mtInbox, inbox, api, jobs, forge, mt, bus, branch>>

\* the cancel branches: comment, close the issue, notify "cancelled", return
CancelClose ==
    /\ Running /\ wf.pc = "cancel_close"
    /\ forge' = [forge EXCEPT !.issue = "closed"]
    /\ notify_main_thread("cancelled")
    /\ wf' = Goto("finally")
    /\ UNCHANGED <<task, topics, inbox, api, jobs, hist, mt, bus, branch>>

\* update the issue body, post_plan_to_issue (the comment id, or 0)
PostPlan ==
    /\ Running /\ wf.pc = "post_plan"
    /\ \E id \in BOOLEAN :
         wf' = [wf EXCEPT !.pc = "review_write", !.plan_comment_id = id]
    /\ forge' = [forge EXCEPT !.reaction = FALSE]
    /\ UNCHANGED <<task, topics, mtInbox, inbox, api, jobs, hist, mt, bus, branch>>

\* update_worker_task_status(WAITING_PLAN_REVIEW, plan_text), notify
\* "plan_review", plan_posted_at = now
PlanReviewWrite ==
    /\ Running /\ wf.pc = "review_write"
    /\ Write([status |-> "waiting_plan_review", plan_text |-> TRUE])
    /\ notify_main_thread("plan_review")
    /\ wf' = [StartClock(wf) EXCEPT !.pc = "plan_poll", !.waits = @ + 1,
                                    !.response = "none", !.source = "none"]
    /\ forge' = [forge EXCEPT !.command = "none"]
    /\ UNCHANGED <<topics, inbox, api, jobs, mt, bus, branch>>

\* recv_async(TOPIC_PLAN_RESPONSE, poll_interval) returns a message
PlanRecv ==
    /\ Running /\ wf.pc = "plan_poll"
    /\ topics[TOPIC_PLAN_RESPONSE] # <<>>
    /\ LET m == Head(topics[TOPIC_PLAN_RESPONSE]) IN
       /\ wf' = [wf EXCEPT !.pc = "plan_decide", !.response = m.action,
                           !.source = "ui"]
    /\ topics' = [topics EXCEPT ![TOPIC_PLAN_RESPONSE] = Tail(@)]
    /\ UNCHANGED <<task, mtInbox, inbox, api, jobs, forge, hist, mt, bus, branch>>

PlanRecvTimeout ==
    /\ Running /\ wf.pc = "plan_poll"
    /\ topics[TOPIC_PLAN_RESPONSE] = <<>>
    /\ wf' = Goto("plan_reactions")
    /\ UNCHANGED <<task, topics, mtInbox, inbox, api, jobs, forge, hist, mt, bus, branch>>

\* check_plan_comment_reactions, skipped when plan_comment_id is 0
PlanReactions ==
    /\ Running /\ wf.pc = "plan_reactions"
    /\ wf' = IF wf.plan_comment_id /\ forge.reaction
             THEN [wf EXCEPT !.pc = "plan_decide", !.response = "approve",
                             !.source = "github_reaction"]
             ELSE Goto("plan_comments")
    /\ UNCHANGED <<task, topics, mtInbox, inbox, api, jobs, forge, hist, mt, bus, branch>>

\* check_issue_for_plan_approval; nothing: back to the recv, or RuntimeError
\* once total_wait has reached PLAN_REVIEW_TIMEOUT_SECONDS
PlanComments ==
    /\ Running /\ wf.pc = "plan_comments"
    /\ IF forge.command # "none"
       THEN wf' = [wf EXCEPT !.pc = "plan_decide", !.response = forge.command,
                             !.source = "github"]
       ELSE wf' \in PollFailed(wf, "plan_poll")
    /\ UNCHANGED <<task, topics, mtInbox, inbox, api, jobs, forge, hist, mt, bus, branch>>

\* the response: approve leaves the loop, cancel writes CANCELLED, anything
\* else is a revision (plan_text = feedback, user_answers = {}, continue)
PlanDecide ==
    /\ Running /\ wf.pc = "plan_decide"
    /\ IF wf.response = "approve"
       THEN /\ wf' = Goto("ready_write")
            /\ UNCHANGED <<task, hist>>
       ELSE IF wf.response = "cancel"
       THEN /\ Write([status |-> "cancelled"])
            /\ wf' = Goto("cancel_close")
       ELSE /\ wf' = [wf EXCEPT !.pc = "plan_loop", !.plan_text = TRUE,
                                !.user_answers = FALSE]
            /\ UNCHANGED <<task, hist>>
    /\ UNCHANGED <<topics, mtInbox, inbox, api, jobs, forge, mt, bus, branch>>

\* "Plan approved" comment, labels, generate_branch_name_step;
\* update_worker_task_status(READY_TO_IMPLEMENT, issue, branch_name, plan_text),
\* notify "ready_to_implement"
ReadyWrite ==
    /\ Running /\ wf.pc = "ready_write"
    /\ Write([status |-> "ready_to_implement", issue_number |-> TRUE,
              branch_name |-> TRUE, plan_text |-> TRUE])
    /\ notify_main_thread("ready_to_implement")
    /\ wf' = [wf EXCEPT !.pc = "start_wait", !.waits = @ + 1]
    /\ UNCHANGED <<topics, inbox, api, jobs, forge, mt, bus, branch>>

\* recv_async(TOPIC_START_IMPLEMENTATION, 24 h) returns a message
StartRecv ==
    /\ Running /\ wf.pc = "start_wait"
    /\ topics[TOPIC_START_IMPLEMENTATION] # <<>>
    /\ LET m == Head(topics[TOPIC_START_IMPLEMENTATION]) IN
       /\ IF m.action = "cancel"
          THEN /\ Write([status |-> "cancelled"])
               /\ wf' = [wf EXCEPT !.pc = "cancel_close", !.response = m.action]
          ELSE /\ wf' = [wf EXCEPT !.pc = "implementing", !.response = m.action]
               /\ UNCHANGED <<task, hist>>
    /\ topics' = [topics EXCEPT ![TOPIC_START_IMPLEMENTATION] = Tail(@)]
    /\ UNCHANGED <<mtInbox, inbox, api, jobs, forge, mt, bus, branch>>

\* the recv returned None after 24 hours
StartTimeout ==
    /\ Running /\ wf.pc = "start_wait"
    /\ topics[TOPIC_START_IMPLEMENTATION] = <<>>
    /\ wf' = Raise(wf, "timeout")
    /\ UNCHANGED <<task, topics, mtInbox, inbox, api, jobs, forge, hist, mt, bus, branch>>

\* PHASE 2: update_worker_task_status(IMPLEMENTING), run_job_with_retry(spawn_implement_job)
Implementing ==
    /\ Running /\ wf.pc = "implementing"
    /\ Write([status |-> "implementing"])
    /\ wf' = CallJob(wf, "implement", "implement_result")
    /\ UNCHANGED <<topics, mtInbox, inbox, api, jobs, forge, mt, bus, branch>>

\* after the implement job.  Only `if task.skip_plan:` takes pr_url from the
\* result (JobRecv has put it into wf.pr_number); without one the workflow
\* notifies "completed" and returns.  A planned task keeps pr_number = None.
ImplementResult ==
    /\ Running /\ wf.pc = "implement_result"
    /\ IF task.skip_plan /\ ~wf.pr_number
       THEN /\ notify_main_thread("completed")
            /\ wf' = Goto("finally")
       ELSE /\ wf' = [wf EXCEPT !.pc = "ci_loop", !.ci_iteration = 0]
            /\ UNCHANGED mtInbox
    /\ UNCHANGED <<task, topics, inbox, api, jobs, forge, hist, mt, bus, branch>>

\* `while ci_iteration < MAX_CI_ITERATIONS:` and, once it is false,
\* `if ci_iteration >= MAX_CI_ITERATIONS: raise RuntimeError`
CiLoopGuardInclusive(w) == w.ci_iteration <= MAX_CI_ITERATIONS
CiLoopGuard(w) == w.ci_iteration < MAX_CI_ITERATIONS

\* the loop is left with the guard false: RuntimeError("CI checks still failing")
CiGiveUp ==
    /\ Running /\ wf.pc = "ci_loop"
    /\ ~CiLoopGuard(wf)
    /\ wf' = Raise(wf, "ci")
    /\ UNCHANGED <<task, topics, mtInbox, inbox, api, jobs, forge, hist, mt, bus, branch>>

\* github_pr.get_check_status: no pull request under that number (404, and
\* so for pr_number = None) is "pending"; otherwise what the check runs say
CheckStatuses(w) ==
    IF w.pr_number /\ forge.pr # "none" THEN {"success", "pending", "failure"}
    ELSE {"pending"}

\* the loop is entered with the guard true: DBOS.sleep_async(PR_POLL_INTERVAL)
CiSleep ==
    /\ Running /\ wf.pc = "ci_loop"
    /\ CiLoopGuard(wf)
    /\ wf' = Goto("ci_check")
    /\ UNCHANGED <<task, topics, mtInbox, inbox, api, jobs, forge, hist, mt, bus, branch>>

\* the rest of the loop body: get_check_status_step and its three branches
\* (success: break; failure: a fix job, then sleep 30; else: continue)
CiCheck ==
    /\ Running /\ wf.pc = "ci_check"
    /\ \E check_status \in CheckStatuses(wf) :
         CASE check_status = "success" ->
                /\ wf' = Goto("under_review")
                /\ hist' = [hist EXCEPT !.polledAfterFix = TRUE]
                /\ UNCHANGED mtInbox
           [] check_status = "failure" ->
                /\ wf' = CallJob([wf EXCEPT !.ci_iteration = @ + 1], "fix", "ci_loop")
                /\ notify_main_thread("ci_failed")
                /\ hist' = [hist EXCEPT !.nFix = @ + 1,
                                        !.polledAfterFix = FALSE]
           [] OTHER ->
                /\ wf' = Goto("ci_loop")
                /\ hist' = [hist EXCEPT !.polledAfterFix = TRUE]
                /\ UNCHANGED mtInbox
    /\ UNCHANGED <<task, topics, inbox, api, jobs, forge, mt, bus, branch>>

\* update_worker_task_status(UNDER_REVIEW, pr_url, pr_number), notify "code_ready",
\* last_check = now: forge.feedback says that there is an actionable comment
\* newer than last_check, and the comments made so far are behind it
UnderReview ==
    /\ Running /\ wf.pc = "under_review"
    /\ Write(IF wf.pr_number THEN [status |-> "under_review", pr_number |-> TRUE]
             ELSE [status |-> "under_review"])
    /\ notify_main_thread("code_ready")
    /\ forge' = [forge EXCEPT !.feedback = FALSE]
    /\ wf' = Goto("review_sleep")
    /\ UNCHANGED <<topics, inbox, api, jobs, mt, bus, branch>>

\* (ReviewCheckIgnoringClosed: the pass that tests pr_status["merged"] only; a
\* closed pull request goes on to the comment check)
ReviewCheckIgnoringClosed ==
    /\ Running /\ wf.pc = "review_sleep"
    /\ CASE forge.pr = "merged" ->
              /\ Write([status |-> "completed"])
              /\ notify_main_thread("completed")
              /\ wf' = Goto("finally")
              /\ UNCHANGED forge
         [] forge.pr = "none" ->
              /\ wf' = Goto("finally")
              /\ UNCHANGED <<task, hist, mtInbox, forge>>
         [] OTHER ->
              IF forge.feedback
              THEN /\ wf' = [wf EXCEPT !.pc = "feedback_write",
                                       !.feedback_iteration = @ + 1]
                   /\ hist' = [hist EXCEPT !.unhandled = FALSE]
                   /\ UNCHANGED <<task, mtInbox, forge>>
              ELSE /\ wf' = Goto("review_sleep")
                   /\ UNCHANGED <<task, hist, mtInbox, forge>>
    /\ UNCHANGED <<topics, inbox, api, jobs, mt, bus, branch>>

\* PHASE 3 (and _run_code_review_loop on the resume path): sleep, check_pr_status,
\* then check_for_new_comments / get_feedback_context since last_check
ReviewCheck ==
    /\ Running /\ wf.pc = "review_sleep"
    /\ CASE forge.pr = "merged" ->
              /\ Write([status |-> "completed"])
              /\ notify_main_thread("completed")
              /\ wf' = Goto("finally")
              /\ UNCHANGED forge
         [] forge.pr = "closed" ->
              /\ Write([status |-> "cancelled"])
              /\ notify_main_thread("cancelled")
              /\ wf' = Goto("finally")
              /\ UNCHANGED forge
         [] forge.pr = "none" ->
              \* not_found: break, return
              /\ wf' = Goto("finally")
              /\ UNCHANGED <<task, hist, mtInbox, forge>>
         [] OTHER ->
              IF forge.feedback
              THEN /\ wf' = [wf EXCEPT !.pc = "feedback_write",
                                       !.feedback_iteration = @ + 1]
                   /\ hist' = [hist EXCEPT !.unhandled = FALSE]
                   /\ UNCHANGED <<task, mtInbox, forge>>
              ELSE \* last_check = now
                   /\ wf' = Goto("review_sleep")
                   /\ UNCHANGED <<task, hist, mtInbox, forge>>
    /\ UNCHANGED <<topics, inbox, api, jobs, mt, bus, branch>>

\* update_worker_task_status(IMPLEMENTING), run_job_with_retry(spawn_feedback_job)
FeedbackWrite ==
    /\ Running /\ wf.pc = "feedback_write"
    /\ Write([status |-> "implementing"])
    /\ wf' = CallJob(wf, "feedback", "feedback_done")
    /\ UNCHANGED <<topics, mtInbox, inbox, api, jobs, forge, mt, bus, branch>>

\* update_worker_task_status(UNDER_REVIEW, ...), notify "feedback_addressed",
\* last_check = now: the comments made so far are behind the watermark
FeedbackDone ==
    /\ Running /\ wf.pc = "feedback_done"
    /\ Write([status |-> "under_review", pr_number |-> TRUE])
    /\ notify_main_thread("feedback_addressed")
    /\ forge' = [forge EXCEPT !.feedback = FALSE]
    /\ wf' = Goto("review_sleep")
    /\ UNCHANGED <<topics, inbox, api, jobs, mt, bus, branch>>

\* except Exception: update_worker_task_status(FAILED, error), notify "failed", return
\* (ExceptWithoutWrite: the handler without its status write)
ExceptWithoutWrite ==
    /\ Running /\ wf.pc = "except"
    /\ notify_main_thread("failed")
    /\ wf' = Goto("finally")
    /\ UNCHANGED <<task, hist, topics, inbox, api, jobs, forge, mt, bus, branch>>

Except ==
    /\ Running /\ wf.pc = "except"
    /\ Write([status |-> "failed", error |-> wf.err])
    /\ notify_main_thread("failed")
    /\ wf' = Goto("finally")
    /\ UNCHANGED <<topics, inbox, api, jobs, forge, mt, bus, branch>>

\* the finally clause of worker_task_workflow: `for attempt in
\* range(1, cleanup_attempts + 1)`, break on success, asyncio.sleep(2 ** attempt)
\* between attempts.  The finally clause of _run_code_review_loop, which the
\* resume path returns through, calls cleanup_namespace once.
cleanup_attempts == 3

CleanupAttempts(w) == IF w.resumed THEN 1 ELSE cleanup_attempts

\* finally: cleanup_namespace; the workflow function has returned.  `failing`
\* is the number of calls of delete_task_namespace that would raise in a row
\* (none unless hist.teardownFaults); wf.cleanups counts the calls made, and
\* the sandbox is left behind when each of them raised.
Finally ==
    /\ Running /\ wf.pc = "finally"
    /\ \E failing \in 0 .. (IF hist.teardownFaults THEN cleanup_attempts ELSE 0) :
         wf' = [wf EXCEPT !.pc = "done", !.status = "success",
                          !.cleanups = IF failing < CleanupAttempts(wf)
                                       THEN failing + 1 ELSE CleanupAttempts(wf),
                          !.sandbox = @ /\ failing >= CleanupAttempts(wf)]
    /\ UNCHANGED <<task, topics, mtInbox, inbox, api, jobs, forge, hist, mt, bus, branch>>

Worker ==
    \/ WorkflowStart \/ ResumeSetup \/ ResumeWrite \/ SetupNamespace
    \/ PlanningWrite \/ CreateIssue \/ IssueWrite \/ PlanLoop
    \/ JobSpawn \/ JobRecv \/ JobTimeout
    \/ PlanResult \/ PostQuestions \/ QuestionsRecv \/ QuestionsRecvTimeout
    \/ QuestionsForge \/ QuestionsDecide \/ CancelClose
    \/ PostPlan \/ PlanReviewWrite \/ PlanRecv \/ PlanRecvTimeout
    \/ PlanReactions \/ PlanComments \/ PlanDecide \/ ReadyWrite
    \/ StartRecv \/ StartTimeout
    \/ Implementing \/ ImplementResult \/ CiGiveUp \/ CiSleep \/ CiCheck
    \/ UnderReview \/ ReviewCheck \/ FeedbackWrite \/ FeedbackDone
    \/ Except \/ Finally

\* ------------------------------------------------------------------ HTTP handlers
\* api.py.  A handler reads the row (await db.get_worker_task), checks it, sends
\* (DBOS.send is synchronous) and then awaits db.update_worker_task: the
\* workflow and other handlers run between the read, the send and the write.

\* the status each decision endpoint requires of the row it has read
RequiredStatus(kind) ==
    CASE kind = "answer" -> "waiting_questions"
      [] kind = "approve" -> "waiting_plan_review"
      [] kind = "start" -> "ready_to_implement"

TopicOf(kind) ==
    CASE kind = "answer" -> TOPIC_QUESTION_RESPONSE
      [] kind = "approve" -> TOPIC_PLAN_RESPONSE
      [] kind = "start" -> TOPIC_START_IMPLEMENTATION

Actions(kind) ==
    CASE kind = "answer" -> {"answer", "cancel"}
      [] kind = "approve" -> {"approve", "cancel", "revise"}
      [] kind = "start" -> {"start"}

\* the positions in which the workflow polls for the decision of a wait
PollPcs == {"post_questions", "questions_poll", "questions_forge",
            "plan_poll", "plan_reactions", "plan_comments", "start_wait"}

\* the wait a decision of a kind is for: the round of questions or of plan
\* review that is current (the workflow counts them in wf.waits); the start of
\* the implementation is one wait
WaitOf(kind) == IF kind = "start" THEN 0 ELSE wf.waits

Request(kind, action) ==
    [id |-> hist.nreq + 1, kind |-> kind, action |-> action, stage |-> "send",
     issue_number |-> task.issue_number, pr_number |-> task.pr_number,
     sentFor |-> WaitOf(kind), late |-> FALSE]

\* answer_task_questions / approve_task_plan / start_task_implementation up to
\* the status check: 400 unless the row read has the required status
DecisionRead(kind, action) ==
    /\ hist.nreq < MaxUserActions
    /\ action = "revise" => wf.plan_iteration < MaxPlanRounds
    /\ task.status = RequiredStatus(kind)
    /\ api' = api \cup {Request(kind, action)}
    /\ hist' = [hist EXCEPT !.nreq = @ + 1]
    /\ UNCHANGED <<task, wf, topics, mtInbox, inbox, jobs, forge, mt, bus, branch>>

\* DBOS.send(task_id, {...}, topic=...)
DecisionSend(r) ==
    /\ r.stage = "send"
    /\ topics' = [topics EXCEPT ![TopicOf(r.kind)] =
                     Append(@, [action |-> r.action, sentFor |-> r.sentFor])]
    /\ api' = (api \ {r}) \cup
              {[r EXCEPT !.stage = "write",
                         !.late = wf.source \in {"github", "github_reaction"}
                                  /\ WaitOf(r.kind) = r.sentFor /\ wf.pc \notin PollPcs]}
    /\ UNCHANGED <<task, wf, mtInbox, inbox, jobs, forge, hist, mt, bus, branch>>

\* "Update task status immediately so frontend sees correct state on refetch"
DecisionUpdate(r) ==
    CASE r.kind = "answer" /\ r.action = "cancel" ->
           [status |-> "cancelled", pending_questions |-> FALSE]
      [] r.kind = "answer" ->
           [status |-> "planning", pending_questions |-> FALSE]
      [] r.kind = "approve" /\ r.action = "cancel" -> [status |-> "cancelled"]
      [] r.kind = "approve" /\ r.action = "approve" -> [status |-> "ready_to_implement"]
      [] r.kind = "approve" -> [status |-> "planning"]
      [] r.kind = "start" -> [status |-> "implementing"]

\* the issue is closed by the cancel branches when the row read had an issue
ClosedBy(r) ==
    IF r.action = "cancel" /\ r.issue_number
    THEN [forge EXCEPT !.issue = "closed"] ELSE forge

DecisionWrite(r) ==
    /\ r.stage = "write" /\ r.kind \in {"answer", "approve", "start"}
    /\ task' = update_worker_task(task, DecisionUpdate(r))
    /\ forge' = ClosedBy(r)
    /\ hist' = Observe(task')
    /\ api' = api \ {r}
    /\ UNCHANGED <<wf, topics, mtInbox, inbox, jobs, mt, bus, branch>>

\* DBOS.cancel_workflow: a workflow that has not finished is cancelled and
\* stops at its next step, recv or sleep
cancel_workflow(w) ==
    IF w.status \in {"enqueued", "running"} THEN [w EXCEPT !.status = "cancelled"] ELSE w

\* cancel_task: read the row, DBOS.cancel_workflow(task_id)
CancelTaskRead ==
    /\ hist.nreq < MaxUserActions
    /\ wf' = cancel_workflow(wf)
    /\ api' = api \cup {[Request("cancel_task", "cancel") EXCEPT !.stage = "write"]}
    /\ hist' = [hist EXCEPT !.nreq = @ + 1]
    /\ UNCHANGED <<task, topics, mtInbox, inbox, jobs, forge, mt, bus, branch>>

\* cancel_task: update_worker_task(CANCELLED), close the issue and the PR
\* (hist.cancelTask: a call of cancel_task has made its write)
CancelTaskWrite(r) ==
    /\ r.stage = "write" /\ r.kind = "cancel_task"
    /\ task' = update_worker_task(task, [status |-> "cancelled"])
    /\ hist' = [Observe(task') EXCEPT !.cancelTask = TRUE]
    /\ forge' = [forge EXCEPT
                   !.issue = IF r.issue_number THEN "closed" ELSE @,
                   !.pr = IF r.pr_number /\ @ = "open" THEN "closed" ELSE @]
    /\ api' = api \ {r}
    /\ UNCHANGED <<wf, topics, mtInbox, inbox, jobs, mt, bus, branch>>

\* retry_task: read the row (no status check) and reset it to PENDING
\* (error=None is no update).  The user retries a task that is shown as failed
\* (the "Retry" option of the error item) and whose workflow has ended, and
\* the retry is the last thing the user does in a behaviour.
RetryRead ==
    /\ hist.nreq < MaxUserActions
    /\ task.status = "failed"
    /\ wf.status \notin {"enqueued", "running"}
    /\ api' = api \cup {[Request("retry", "retry") EXCEPT !.stage = "write"]}
    /\ hist' = [hist EXCEPT !.nreq = MaxUserActions]
    /\ UNCHANGED <<task, wf, topics, mtInbox, inbox, jobs, forge, mt, bus, branch>>

RetryWrite(r) ==
    /\ r.stage = "write" /\ r.kind = "retry"
    /\ Write([status |-> "pending"])
    /\ api' = (api \ {r}) \cup {[r EXCEPT !.stage = "enqueue"]}
    /\ UNCHANGED <<wf, topics, mtInbox, inbox, jobs, forge, mt, bus, branch>>

\* retry_task: DELETE FROM dbos.workflow_status (the notifications of the
\* workflow go with the row), then worker_queue.enqueue under the same id
RetryEnqueue(r) ==
    /\ r.stage = "enqueue" /\ r.kind = "retry"
    /\ wf' = FreshWorkflow
    /\ topics' = [t \in Topics |-> <<>>]
    /\ hist' = [hist EXCEPT !.nReady = 0,
                            !.polledAfterFix = TRUE]
    /\ api' = api \ {r}
    /\ UNCHANGED <<task, mtInbox, inbox, jobs, forge, mt, bus, branch>>

\* ------------------------------------------------------------------ executor job
\* job_runner posts to /internal/tasks/{task_id}/complete: api.task_complete

\* what a job of a mode may report
\* (job: the launch the payload comes from, which the payload itself does
\* not name)
JobResults(j) ==
    LET job == j.launch IN
    CASE j.mode = "plan" ->
           { [status |-> "completed", plan_text |-> TRUE, questions |-> q, pr_url |-> FALSE,
              job |-> job]
               : q \in {FALSE, j.iteration < MaxPlanRounds} }
           \cup {[status |-> "completed", plan_text |-> FALSE, questions |-> FALSE,
                  pr_url |-> FALSE, job |-> job]}
      [] j.mode = "implement" ->
           { [status |-> "completed", plan_text |-> FALSE, questions |-> FALSE, pr_url |-> p,
              job |-> job]
               : p \in BOOLEAN }
      [] OTHER ->
           { [status |-> "completed", plan_text |-> FALSE, questions |-> FALSE,
              pr_url |-> FALSE, job |-> job] }

JobFailed(j) ==
    [status |-> "failed", plan_text |-> FALSE, questions |-> FALSE, pr_url |-> FALSE,
     job |-> j.launch]

\* task_complete, result.status == "completed": the row is written only when
\* the result carries a URL; the job has opened the pull request
TaskCompleteOk(j) ==
    /\ j.stage = "running"
    /\ \E res \in JobResults(j) :
         /\ jobs' = (jobs \ {j}) \cup {[j EXCEPT !.stage = "send", !.msg = res]}
         /\ IF res.pr_url
            THEN /\ Write([result |-> TRUE, pr_number |-> TRUE])
                 /\ forge' = [forge EXCEPT !.pr = IF @ = "none" THEN "open" ELSE @]
            ELSE UNCHANGED <<task, hist, forge>>
    /\ UNCHANGED <<wf, topics, mtInbox, inbox, api, mt, bus, branch>>

\* task_complete, result.status == "failed": update_worker_task(FAILED, error)
TaskCompleteFailed(j) ==
    /\ j.stage = "running"
    /\ FaultAllowed
    /\ jobs' = (jobs \ {j}) \cup {[j EXCEPT !.stage = "send", !.msg = JobFailed(j)]}
    /\ task' = update_worker_task(task, [status |-> "failed", error |-> "job"])
    /\ hist' = [Observe(task') EXCEPT !.faults = @ + 1]
    /\ UNCHANGED <<wf, topics, mtInbox, inbox, api, forge, mt, bus, branch>>

\* task_complete: DBOS.send(task_id, {...}, topic=TOPIC_JOB_RESULT)
TaskCompleteSend(j) ==
    /\ j.stage = "send"
    /\ topics' = [topics EXCEPT ![TOPIC_JOB_RESULT] = Append(@, j.msg)]
    /\ jobs' = jobs \ {j}
    /\ UNCHANGED <<task, wf, mtInbox, inbox, api, forge, hist, mt, bus, branch>>

\* job_runner.send_result: `for attempt in range(3)` posts again after an
\* httpx.RequestError
SEND_ATTEMPTS == 3

\* task_complete has sent, and the response does not reach the job (read
\* timeout, connection lost): send_result catches the RequestError, sleeps
\* and posts the same payload again.  (j.posts: the POSTs of this job that
\* ended in a DBOS.send)
TaskCompleteSendLost(j) ==
    /\ j.stage = "send"
    /\ j.posts + 1 < SEND_ATTEMPTS
    /\ FaultAllowed
    /\ topics' = [topics EXCEPT ![TOPIC_JOB_RESULT] = Append(@, j.msg)]
    /\ jobs' = (jobs \ {j}) \cup {[j EXCEPT !.stage = "repost", !.posts = @ + 1]}
    /\ hist' = [hist EXCEPT !.faults = @ + 1]
    /\ UNCHANGED <<task, wf, mtInbox, inbox, api, forge, mt, bus, branch>>

\* task_complete on the payload posted again: the same updates of the row
TaskCompleteRepost(j) ==
    /\ j.stage = "repost"
    /\ jobs' = (jobs \ {j}) \cup {[j EXCEPT !.stage = "send"]}
    /\ CASE j.msg.status = "failed" ->
              /\ task' = update_worker_task(task, [status |-> "failed", error |-> "job"])
              /\ hist' = Observe(task')
         [] j.msg.pr_url -> Write([result |-> TRUE, pr_number |-> TRUE])
         [] OTHER -> UNCHANGED <<task, hist>>
    /\ UNCHANGED <<wf, topics, mtInbox, inbox, api, forge, mt, bus, branch>>

\* ------------------------------------------------------------------ main thread
\* main_thread.py: the loop takes one message of its queue at a time;
\* handle_worker_result by payload status.

\* the queue item handle_worker_result adds for a status, "none" when no
\* branch matches
QueueItemFor(status) ==
    CASE status = "code_ready" -> "code_ready"
      [] status = "feedback_addressed" -> "feedback_addressed"
      [] status \in {"completed", "cancelled"} -> "notification"
      [] status = "failed" -> "error"
      [] OTHER -> "none"

\* the update_task_status of the completed / cancelled / failed branches
ResultUpdate(m) ==
    CASE m.status = "completed" -> [status |-> "completed", result |-> TRUE]
      [] m.status = "cancelled" -> [status |-> "cancelled"]
      [] m.status = "failed" -> [status |-> "failed", error |-> m.error]

handle_worker_result ==
    /\ \E w \in mt : w.user_id = TaskUser /\ w.status = "running"
    /\ mtInbox # <<>> /\ Head(mtInbox).type = "worker_result"
    /\ LET m == Head(mtInbox) IN
       /\ IF m.status \in {"completed", "cancelled", "failed"}
          THEN Write(ResultUpdate(m))
          ELSE UNCHANGED <<task, hist>>
       /\ inbox' = IF QueueItemFor(m.status) = "none" THEN inbox
                   ELSE Append(inbox, QueueItemFor(m.status))
    /\ mtInbox' = Tail(mtInbox)
    /\ UNCHANGED <<wf, topics, api, jobs, forge, mt, bus, branch>>

\* ------------------------------------------------------------------ the forge
\* what the user does on the issue and the pull request

\* an approval reaction on the plan comment of a task shown as awaiting review
UserReacts ==
    /\ hist.nreq < MaxUserActions
    /\ task.status = "waiting_plan_review" /\ forge.issue = "open"
    /\ ~forge.reaction
    /\ forge' = [forge EXCEPT !.reaction = TRUE]
    /\ hist' = [hist EXCEPT !.nreq = @ + 1]
    /\ UNCHANGED <<task, wf, topics, mtInbox, inbox, api, jobs, mt, bus, branch>>

\* an issue comment that parse_plan_approval_from_comment reads as an approval
\* or as a revision request; the newest such comment is the one found
UserComments(cmd) ==
    /\ hist.nreq < MaxUserActions
    /\ task.status = "waiting_plan_review" /\ forge.issue = "open"
    /\ cmd = "revise" => wf.plan_iteration < MaxPlanRounds
    /\ forge' = [forge EXCEPT !.command = cmd]
    /\ hist' = [hist EXCEPT !.nreq = @ + 1]
    /\ UNCHANGED <<task, wf, topics, mtInbox, inbox, api, jobs, mt, bus, branch>>

\* an issue comment that answers the questions
UserAnswersOnIssue ==
    /\ hist.nreq < MaxUserActions
    /\ task.status = "waiting_questions" /\ forge.issue = "open"
    /\ ~forge.answers
    /\ forge' = [forge EXCEPT !.answers = TRUE]
    /\ hist' = [hist EXCEPT !.nreq = @ + 1]
    /\ UNCHANGED <<task, wf, topics, mtInbox, inbox, api, jobs, mt, bus, branch>>

MergePR ==
    /\ forge.pr = "open"
    /\ forge' = [forge EXCEPT !.pr = "merged"]
    /\ UNCHANGED <<task, wf, topics, mtInbox, inbox, api, jobs, hist, mt, bus, branch>>

ClosePR ==
    /\ forge.pr = "open"
    /\ forge' = [forge EXCEPT !.pr = "closed"]
    /\ UNCHANGED <<task, wf, topics, mtInbox, inbox, api, jobs, hist, mt, bus, branch>>

\* a review comment on the open pull request
\* (hist.unhandled: an actionable comment made during the review loop is in
\* the feedback of no feedback job yet)
ReviewComment ==
    /\ forge.pr = "open" /\ ~forge.feedback
    /\ hist.nfeedback < MaxFeedback
    /\ forge' = [forge EXCEPT !.feedback = TRUE]
    /\ hist' = [hist EXCEPT !.nfeedback = @ + 1, !.unhandled = (wf.pc = "review_sleep")]
    /\ UNCHANGED <<task, wf, topics, mtInbox, inbox, api, jobs, mt, bus, branch>>

\* ------------------------------------------------------------------ the system

Api ==
    \/ \E kind \in {"answer", "approve", "start"} :
         \E action \in Actions(kind) : DecisionRead(kind, action)
    \/ \E r \in api : DecisionSend(r)
    \/ \E r \in api : DecisionWrite(r)
    \/ CancelTaskRead
    \/ \E r \in api : CancelTaskWrite(r)
    \/ RetryRead
    \/ \E r \in api : RetryWrite(r)
    \/ \E r \in api : RetryEnqueue(r)

Job ==
    \/ \E j \in jobs : TaskCompleteOk(j)
    \/ \E j \in jobs : TaskCompleteFailed(j)
    \/ \E j \in jobs : TaskCompleteSend(j)

\* the callback of a job whose connection to the backend is unreliable
JobRepost ==
    \/ \E j \in jobs : TaskCompleteSendLost(j)
    \/ \E j \in jobs : TaskCompleteRepost(j)

Forge ==
    \/ UserReacts
    \/ \E cmd \in {"approve", "revise"} : UserComments(cmd)
    \/ UserAnswersOnIssue
    \/ MergePR \/ ClosePR \/ ReviewComment

Next == Worker \/ Api \/ Job \/ handle_worker_result \/ Forge

Spec == Init /\ [][Next]_vars

\* ------------------------------------------------------------------ properties

DecisionKinds == {"answer", "approve", "start"}

\* the transitions of the task state machine
Permitted(from, to, t) ==
    \/ from = "pending" /\ to = "planning"
    \/ from = "planning" /\ to \in {"waiting_questions", "waiting_plan_review"}
    \/ from = "waiting_questions" /\ to = "planning"
    \/ from = "waiting_plan_review" /\ to \in {"planning", "ready_to_implement"}
    \/ from = "ready_to_implement" /\ to = "implementing"
    \/ from = "pending" /\ to = "implementing" /\ t.skip_plan
    \/ from = "implementing" /\ to = "under_review"
    \/ from = "under_review" /\ to \in {"implementing", "completed"}
    \/ from \notin Terminal /\ to \in {"cancelled", "failed"}

\* C1: every change of the task's status is a permitted transition of the task
\* state machine (cancelled and failed taken as reachable from every
\* non-terminal status), whatever the interleaving.
C1_PermittedTransitions ==
    [][task'.status # task.status => Permitted(task.status, task'.status, task)]_vars

\* C2: once the status is completed, failed or cancelled, no write changes the
\* status or any other field of the row.
C2_TerminalIsFinal ==
    [][task.status \in Terminal => task' = task]_vars

\* C3: when the workflow takes a message off a decision topic as the decision of
\* its current wait, the message was sent for that wait, not for an earlier
\* round or phase.
C3_NoStaleDecision ==
    [][\A kind \in DecisionKinds :
         (/\ wf.status = "running" /\ wf'.status = "running"
          /\ Len(topics'[TopicOf(kind)]) < Len(topics[TopicOf(kind)]))
         => Head(topics[TopicOf(kind)]).sentFor = WaitOf(kind)]_vars

\* the plan approval of the current wait has come both through the app and
\* through the forge
DualApproval ==
    /\ forge.reaction \/ forge.command = "approve"
    /\ \/ wf.source = "ui" /\ wf.response = "approve"
       \/ \E i \in DOMAIN topics[TOPIC_PLAN_RESPONSE] :
            /\ topics[TOPIC_PLAN_RESPONSE][i].action = "approve"
            /\ topics[TOPIC_PLAN_RESPONSE][i].sentFor = wf.waits

\* C4: when the same approval has been delivered through the app and through
\* the forge, the task has made one transition into ready_to_implement, not more.
C4_OneReadyTransition ==
    DualApproval => hist.nReady <= 1

\* C5: a request whose signal was sent after the workflow had accepted the
\* forge's signal for the same wait, and that carries another action than the
\* accepted one, changes neither the status nor the forge artifacts when its
\* handler finishes.
C5_LateSignalNoEffect ==
    [][\A r \in api :
         (r.late /\ r.action # wf.response /\ r \notin api')
         => (task'.status = task.status /\ forge' = forge)]_vars

\* C6: the row changes only in a step of the worker workflow, or in the write of
\* a cancel or retry request made once the workflow is no longer running.
C6_OnlyWorkflowWrites ==
    [][task' # task =>
         \/ wf.status = "running" /\ wf'.pc # wf.pc
         \/ \E r \in api : /\ r.kind \in {"cancel_task", "retry"}
                           /\ r \notin api'
                           /\ wf.status \notin {"enqueued", "running"}]_vars

\* C7: a decision message is sent only for a task whose status is the one the
\* endpoint requires, and only while the workflow is polling for that decision.
C7_SendOnlyInState ==
    [][\A kind \in DecisionKinds :
         Len(topics'[TopicOf(kind)]) > Len(topics[TopicOf(kind)])
         => /\ task.status = RequiredStatus(kind)
            /\ wf.status = "running" => wf.pc \in PollPcs]_vars

\* C9: one run of the workflow starts a fix job in at most MAX_CI_ITERATIONS
\* iterations of the CI loop, whatever the check results are.
C9_FixJobsBounded ==
    hist.nFix <= MAX_CI_ITERATIONS /\ wf.ci_iteration <= MAX_CI_ITERATIONS

C9_Witness ==
    hist.nFix = MAX_CI_ITERATIONS /\ wf.pc = "ci_loop"

\* C10: when the CI loop gives up, the check status has been polled again after
\* the last fix job (the failure that fails the task is one more than the fix jobs).
C10_FailsOnExtraFailure ==
    wf.err = "ci" => hist.polledAfterFix

\* ------------------------------------------------------------------ main-thread starts
\* The main threads alone: api.py starts one on every chat request
\* (get_or_start_main_thread), workers and the API send to it.

\* DBOS.start_workflow under SetWorkflowID: a workflow id that has a row already
\* gets the handle of that workflow, and nothing is started
start_workflow(rows, row) ==
    IF \E w \in rows : w.workflow_id = row.workflow_id THEN rows ELSE rows \cup {row}

get_or_start_main_thread(u) ==
    /\ hist.nreq < MaxStarts
    /\ mt' = start_workflow(mt, MainThreadRow(u))
    /\ hist' = [hist EXCEPT !.nreq = @ + 1]
    /\ UNCHANGED <<task, wf, topics, mtInbox, inbox, api, jobs, forge, bus, branch>>

\* main_thread_workflow ends with an exception raised outside the try of its
\* loop (the first reads, the recv): the row stays, with status ERROR
MainThreadFails(w) ==
    /\ w.status = "running"
    /\ mt' = (mt \ {w}) \cup {[w EXCEPT !.status = "error"]}
    /\ UNCHANGED <<task, wf, topics, mtInbox, inbox, api, jobs, forge, hist, bus, branch>>

\* notify_main_thread from a worker: DBOS.send to the workflow id of the user
WorkerNotifies(status) ==
    /\ hist.nsent < MaxSends
    /\ \E w \in mt : w.workflow_id = MainThreadWorkflowId(TaskUser)
    /\ notify_main_thread(status)
    /\ hist' = [hist EXCEPT !.nsent = @ + 1]
    /\ UNCHANGED <<task, wf, topics, inbox, api, jobs, forge, mt, bus, branch>>

InitMT ==
    /\ task \in NewTasks
    /\ wf = FreshWorkflow
    /\ topics = [t \in Topics |-> <<>>]
    /\ mtInbox = <<>>
    /\ inbox = <<>>
    /\ api = {}
    /\ jobs = {}
    /\ forge = InitForge(task)
    /\ hist = InitHist
    /\ mt = {}
    /\ bus = <<>>
    /\ branch = <<>>

NextMT ==
    \/ \E u \in Users : get_or_start_main_thread(u)
    \/ \E w \in mt : MainThreadFails(w)
    \/ \E status \in {"code_ready", "completed", "ci_failed"} : WorkerNotifies(status)
    \/ handle_worker_result

SpecMT == InitMT /\ [][NextMT]_vars

\* the main-thread workflows of a user that are running
RunningMainThreads(u) == {w \in mt : w.user_id = u /\ w.status = "running"}

\* C8: for every user at most one main-thread workflow is running, however
\* often the main thread is started for that user.
C8_OneMainThreadPerUser ==
    \A u \in Users : Cardinality(RunningMainThreads(u)) <= 1

\* the main thread has been started twice for one user and runs once
C8_Witness ==
    /\ hist.nreq = MaxStarts
    /\ \E u \in Users : mt = {MainThreadRow(u)}

\* ------------------------------------------------------------------ the CI loop alone
\* A skip_plan task taken from its start through the implement job into the CI
\* verification loop, with nobody calling the HTTP handlers.  Every step of the
\* workflow and of the job callback that can be taken is eventually taken:
\* DBOS runs a dequeued workflow to its next await, and a sleep or a recv with
\* a timeout returns.

InitCI ==
    /\ Init
    /\ task.status = "pending" /\ task.skip_plan

WorkerCI ==
    \/ WorkflowStart \/ SetupNamespace \/ Implementing \/ ImplementResult
    \/ JobSpawn \/ JobRecv \/ JobTimeout
    \/ CiSleep \/ CiCheck \/ CiGiveUp
    \/ Except \/ Finally

NextCI == WorkerCI \/ Job \/ handle_worker_result

SpecCI == InitCI /\ [][NextCI]_vars /\ WF_vars(WorkerCI) /\ WF_vars(Job)

\* the CI verification loop is over: checks passed, or the workflow raised
CiLoopOver == wf.pc = "under_review" \/ wf.err # "none"

\* C11: the CI verification loop is bounded: whatever the check statuses are,
\* checks that stay pending included, a workflow that has entered the loop
\* leaves it, with success or with the failure of the task.
C11_CiLoopEnds == (wf.pc = "ci_loop") ~> CiLoopOver

\* ------------------------------------------------------------------ job retries alone
\* The workflow with its jobs, the forge and the main thread, nobody calling
\* the HTTP handlers, jobs that may fail or stay silent often enough to use
\* up every attempt of one run_job_with_retry call, and a connection between
\* job and backend that may lose a response.

\* a failed task with a pull request after retry_task: pending again, and the
\* workflow enqueued anew takes the resume path
RetriedTasks ==
    { [status |-> "pending", pending_questions |-> FALSE, issue_number |-> ~sp,
       pr_number |-> TRUE, branch_name |-> TRUE, plan_text |-> ~sp,
       error |-> "job", result |-> TRUE, skip_plan |-> sp] : sp \in BOOLEAN }

InitRetry ==
    /\ task \in {t \in NewTasks : t.status = "pending"} \cup RetriedTasks
    /\ wf = FreshWorkflow
    /\ topics = [t \in Topics |-> <<>>]
    /\ mtInbox = <<>>
    /\ inbox = <<>>
    /\ api = {}
    /\ jobs = {}
    /\ forge = [InitForge(task) EXCEPT !.pr = IF task.pr_number THEN "open" ELSE "none"]
    /\ hist = [InitHist EXCEPT !.faultBudget = MaxRetryFaults]
    /\ mt = {MainThreadRow(TaskUser)}
    /\ bus = <<>>
    /\ branch = <<>>

WorkerRetry ==
    \/ WorkflowStart \/ ResumeSetup \/ ResumeWrite \/ SetupNamespace
    \/ PlanningWrite \/ CreateIssue \/ IssueWrite \/ PlanLoop
    \/ JobSpawn \/ JobRecv \/ JobTimeout
    \/ PlanResult
    \/ Implementing \/ ImplementResult \/ CiGiveUp \/ CiSleep \/ CiCheck
    \/ UnderReview \/ ReviewCheck \/ FeedbackWrite \/ FeedbackDone
    \/ Except \/ Finally

NextRetry ==
    \/ WorkerRetry \/ Job \/ JobRepost \/ handle_worker_result
    \/ MergePR \/ ClosePR \/ ReviewComment

SpecRetry == InitRetry /\ [][NextRetry]_vars

\* the delays named for the successive retries (the comment on backoff_seconds)
ListedBackoffs == <<2, 4, 8, 16, 32>>

\* C12: a failing or timed-out job is retried up to MAX_JOB_RETRIES times, with
\* delays of 2, 4, 8, 16 and 32 seconds before the successive retries: the
\* delays slept are the listed ones in order, and the call gives up only after
\* all of them.
C12_RetriesWithBackoff ==
    /\ Len(wf.backoffs) <= Len(ListedBackoffs)
    /\ wf.backoffs = SubSeq(ListedBackoffs, 1, Len(wf.backoffs))
    /\ wf.err = "job" => Len(wf.backoffs) = MAX_JOB_RETRIES

\* a worker_result with status failed has been sent to the main thread of the
\* task's user: it waits in the queue or has become an error item of the inbox
FailedEmitted ==
    \/ \E i \in DOMAIN mtInbox : mtInbox[i].status = "failed" /\ mtInbox[i].error = wf.err
    \/ \E i \in DOMAIN inbox : inbox[i] = "error"

\* C13: when the final attempt of an executor job has failed, in whatever phase,
\* the task is failed with its error set and a failed worker_result has been
\* emitted to the main thread, once the workflow's handler has run.
C13_FinalFailureFailsTask ==
    (wf.err = "job" /\ wf.pc \in {"finally", "done"}) =>
        /\ task.status = "failed"
        /\ task.error # "none"
        /\ FailedEmitted

\* the feedback job of a resumed task has used up its attempts and the
\* workflow has ended
C13_Witness ==
    /\ wf.err = "job" /\ wf.pc = "done"
    /\ wf.resumed /\ wf.mode = "feedback"
    /\ task.status = "failed"

\* a job is created in this step
Launches(j) == j \in jobs' /\ j \notin jobs /\ j.stage = "running"

\* C14: every executor-job launch within a mode, each retry included, carries
\* a strictly larger iteration than the launch before it in that mode, so no
\* two launches share (task, mode, iteration).
C14_LaunchIterationsIncrease ==
    [][\A j \in jobs' : Launches(j) => j.iteration > hist.launched[j.mode]]_vars

\* task_complete sends the job_result message of a POST of job j in this step
Delivers(j) == j \in jobs /\ j.stage = "send" /\ j \notin jobs'

\* C15: each executor-job invocation posts its result exactly once, so each
\* job launch yields exactly one job_result message: no message is sent for a
\* job that has had one sent already.
C15_OneResultPerLaunch ==
    [][\A j \in jobs : Delivers(j) => j.posts = 0]_vars

\* ------------------------------------------------------------------ the waits by the clock
\* A planned task through its waits for the user, with poll_interval and
\* total_wait followed: the user may approve the plan by a reaction, at any
\* time or never, and nobody calls the HTTP handlers.  The workflow and the job callback are
\* scheduled fairly (a recv with a timeout returns); the user need not act.

InitWait ==
    /\ task \in {t \in NewTasks : t.status = "pending" /\ ~t.skip_plan}
    /\ wf = FreshWorkflow
    /\ topics = [t \in Topics |-> <<>>]
    /\ mtInbox = <<>>
    /\ inbox = <<>>
    /\ api = {}
    /\ jobs = {}
    /\ forge = InitForge(task)
    /\ hist = [InitHist EXCEPT !.clocked = TRUE]
    /\ mt = {MainThreadRow(TaskUser)}
    /\ bus = <<>>
    /\ branch = <<>>

WorkerWait ==
    \/ WorkflowStart \/ SetupNamespace
    \/ PlanningWrite \/ CreateIssue \/ IssueWrite \/ PlanLoop
    \/ JobSpawn \/ JobRecv
    \/ PlanResult \/ PostQuestions \/ QuestionsRecvTimeout \/ QuestionsForge
    \/ PostPlan \/ PlanReviewWrite \/ PlanRecvTimeout
    \/ PlanReactions \/ PlanComments \/ PlanDecide \/ ReadyWrite
    \/ StartTimeout
    \/ Except \/ Finally

NextWait ==
    \/ WorkerWait \/ Job \/ handle_worker_result
    \/ UserReacts

SpecWait == InitWait /\ [][NextWait]_vars /\ WF_vars(WorkerWait) /\ WF_vars(Job)

\* the workflow is in one of its waits for the user
WaitPcs ==
    {"questions_poll", "questions_forge", "plan_poll", "plan_reactions",
     "plan_comments", "start_wait"}

\* a signal has been taken from the topic or found on the issue
SignalTaken == wf.pc \in {"questions_decide", "plan_decide"}

\* the wait has timed out and the task is failed
TimedOutFailed == wf.err = "timeout" /\ task.status = "failed" /\ task.error = "timeout"

\* C16: in waiting_questions, waiting_plan_review and ready_to_implement a wait
\* in which no signal arrives ends, after its 24 hours, with the task failed:
\* the task is never left waiting for ever.
C16_WaitTimesOut == (wf.pc \in WaitPcs) ~> (SignalTaken \/ TimedOutFailed)

\* the wait for the start of the implementation has timed out
C16_Witness ==
    /\ TimedOutFailed /\ wf.pc = "done"
    /\ hist.nReady = 1

\* the last pass of a polling loop found nothing
PollPassFailed ==
    /\ wf.pc \in {"questions_forge", "plan_comments"}
    /\ wf'.pc \in {"questions_poll", "plan_poll", "except"}

\* C17: in both polling waits the poll interval starts at 10 s, is multiplied
\* by 1.5 after each unsuccessful poll, never exceeds 300 s, and the wait gives
\* up once 24 hours in total have been spent.
C17_PollSchedule ==
    [][/\ (wf.pc \in {"post_questions", "review_write"} /\ wf'.pc \in WaitPcs)
            => /\ wf'.poll_interval = 10 * TicksPerSecond
               /\ wf'.total_wait = 0
       /\ PollPassFailed
            => /\ wf'.total_wait = wf.total_wait + wf.poll_interval
               /\ \/ 2 * wf'.poll_interval = 3 * wf.poll_interval
                  \/ /\ wf'.poll_interval = 300 * TicksPerSecond
                     /\ 3 * wf.poll_interval >= 2 * 300 * TicksPerSecond
               /\ wf'.poll_interval <= 300 * TicksPerSecond
               /\ wf'.pc = "except" <=> wf'.total_wait >= 86400 * TicksPerSecond
      ]_vars

\* a polling wait has reached the cap of the interval and has given up
C17_Witness ==
    /\ wf.err = "timeout" /\ wf.pc = "except"
    /\ wf.poll_interval = 300 * TicksPerSecond
    /\ wf.total_wait >= 86400 * TicksPerSecond

\* the status of the task row changes to st in this step
Enters(st) == task.status # st /\ task'.status = st

\* the workflow has just received a plan-job result with questions
QuestionsReceived == wf.pc = "plan_result" /\ wf.plan_text /\ wf.questions

\* the plan-job result the workflow received last has a plan and no questions
PlanWithoutQuestions == wf.plan_text /\ ~wf.questions

\* C18: a plan-job result with questions causes one round planning ->
\* waiting_questions -> planning (the status is planning when the questions
\* come, the result is what makes it waiting_questions, and the answer makes it
\* planning again), and waiting_plan_review is not reached before a plan-job
\* result without questions has been received.
C18_QuestionRounds ==
    [][/\ Enters("waiting_questions")
            => task.status = "planning" /\ QuestionsReceived
       /\ (task.status = "waiting_questions" /\ task'.status # "waiting_questions")
            => task'.status \in {"planning", "cancelled", "failed"}
       /\ Enters("waiting_plan_review") => PlanWithoutQuestions
      ]_vars

\* the workflow has received a cancel action in one of its waits and has
\* taken the cancel branch
CancelReceived == wf.response = "cancel" /\ wf.pc \in {"cancel_close", "finally", "done"}

\* C19: after a cancel action is received in waiting_questions,
\* waiting_plan_review or ready_to_implement, the task ends cancelled and no
\* executor job is launched afterwards.
C19_CancelReceivedEndsCancelled ==
    [][CancelReceived' =>
          /\ task'.status = "cancelled"
          /\ \A j \in jobs' : ~Launches(j)]_vars

\* C20: a task cancelled through cancel_task ends cancelled: after the call
\* its workflow launches no further executor job and no later write, by the
\* workflow's error handling or by the main thread, replaces cancelled.
C20_CancelTaskIsFinal ==
    [][hist.cancelTask =>
          /\ task'.status = "cancelled"
          /\ \A j \in jobs' : ~Launches(j)]_vars

\* C21: starting the worker workflow for a task whose status is already
\* completed, failed or cancelled changes nothing observable: no write of the
\* row, no forge write, no sandbox or job creation and no notification.
C21_TerminalStartIsNoOp ==
    [][(wf.loaded_terminal /\ wf'.loaded_terminal /\ wf' # wf) =>
          /\ task' = task
          /\ forge' = forge
          /\ jobs' = jobs
          /\ mtInbox' = mtInbox
          /\ wf'.sandbox = wf.sandbox]_vars

\* the run of the workflow that found a pr_number on the row it loaded
Resuming == wf.pc \in {"resume_setup", "resume_write"} \/ wf.resumed

\* C22: a workflow started for a task that already has a pr_number goes, after
\* the sandbox and the under_review write, straight into the code-review loop,
\* with last_check = task.created_at (a comment made before the loop is entered
\* is still found by it), and launches neither a plan nor an implement job.
C22_ResumeEntersReview ==
    [][/\ (wf.pc = "start" /\ wf'.pc # "start" /\ task.pr_number)
            => wf'.pc = "resume_setup"
       /\ (wf.pc = "resume_setup" /\ wf'.pc # "resume_setup" /\ Running')
            => wf'.pc = "resume_write"
       /\ (wf.pc = "resume_write" /\ wf'.pc # "resume_write" /\ Running')
            => wf'.pc = "review_sleep" /\ forge'.feedback = forge.feedback
       /\ (wf.resumed /\ wf.pc = "review_sleep" /\ wf'.pc # "review_sleep"
             /\ Running' /\ forge.pr = "open" /\ forge.feedback)
            => wf'.pc = "feedback_write"
       /\ Resuming' => \A j \in jobs' :
                          Launches(j) => j.mode \notin {"plan", "implement"}]_vars

C22_Witness ==
    /\ wf.resumed /\ wf.pc = "job_wait" /\ wf.mode = "feedback"
    /\ \A j \in jobs : j.mode = "feedback"

\* C23: when the implement job has succeeded the workflow holds the pull
\* request of that job's result, for a planned task as for one that skipped
\* planning, and the CI and review phases work on that pull request.
C23_PrTakenFromImplementResult ==
    [][(wf.pc = "job_wait" /\ wf.mode = "implement" /\ wf'.pc = "implement_result")
          => wf'.pr_number = Head(topics[TOPIC_JOB_RESULT]).pr_url]_vars

\* the task has been in ready_to_implement: the workflow wrote it after the plan
\* was approved, or planning.approve_plan created the task in it
WasReady == hist.nReady > 0 \/ (task.skip_plan /\ task.plan_text)

\* C24: for a task that is in ready_to_implement the implement job is launched
\* only after a start_implementation message with action start was received.
C24_ImplementOnlyAfterStart ==
    [][\A j \in jobs' :
         (Launches(j) /\ j.mode = "implement" /\ WasReady) => wf.response = "start"]_vars

\* the step appends one worker_result with this status to the main thread's queue
Notifies(status) ==
    /\ Len(mtInbox') = Len(mtInbox) + 1
    /\ mtInbox'[Len(mtInbox')].type = "worker_result"
    /\ mtInbox'[Len(mtInbox')].status = status

\* C25: in the code-review loop a pull request observed as merged moves the task
\* to completed, one observed as closed without merge moves it to cancelled,
\* each with a notification to the main thread, and the workflow then exits.
C25_MergedOrClosedEndsReview ==
    [][(wf.pc = "review_sleep" /\ Running /\ Running' /\ wf' # wf) =>
          /\ forge.pr = "merged" =>
                task'.status = "completed" /\ Notifies("completed")
                /\ wf'.pc = "finally"
          /\ forge.pr = "closed" =>
                task'.status = "cancelled" /\ Notifies("cancelled")
                /\ wf'.pc = "finally"]_vars

C25_Witness ==
    /\ forge.pr = "closed" /\ wf.pc = "done" /\ wf.err = "none"
    /\ task.status = "cancelled"
    /\ mtInbox # <<>> /\ mtInbox[Len(mtInbox)].status = "cancelled"

\* C26: when the code-review loop finds actionable feedback the task goes from
\* under_review to implementing, one feedback job (the one of this round, its
\* retries included) is run, and the task goes from implementing back to
\* under_review with a feedback_addressed notification after the job.
C26_FeedbackRound ==
    [][/\ (wf.pc = "feedback_write" /\ wf'.pc # "feedback_write" /\ Running')
            => /\ task.status = "under_review" /\ task'.status = "implementing"
               /\ wf'.mode = "feedback"
       /\ (wf.pc = "feedback_done" /\ wf'.pc # "feedback_done" /\ Running')
            => /\ task.status = "implementing" /\ task'.status = "under_review"
               /\ hist.launched["feedback"] = wf.feedback_iteration
               /\ Notifies("feedback_addressed")]_vars

\* ------------------------------------------------------------------ teardown faults
\* The specification of the job retries with a cluster whose namespace
\* deletion may raise, and one job fault at most; each job result is followed
\* back to the launch it comes from.

InitTeardown ==
    /\ task \in {t \in NewTasks : t.status = "pending"} \cup RetriedTasks
    /\ wf = FreshWorkflow
    /\ topics = [t \in Topics |-> <<>>]
    /\ mtInbox = <<>>
    /\ inbox = <<>>
    /\ api = {}
    /\ jobs = {}
    /\ forge = [InitForge(task) EXCEPT !.pr = IF task.pr_number THEN "open" ELSE "none"]
    /\ hist = [InitHist EXCEPT !.teardownFaults = TRUE, !.tagging = TRUE]
    /\ mt = {MainThreadRow(TaskUser)}
    /\ bus = <<>>
    /\ branch = <<>>

SpecTeardown == InitTeardown /\ [][NextRetry]_vars

\* C27: on every path on which the workflow ends (completed, cancelled, failed,
\* resumed with an existing pull request) the teardown of the sandbox is
\* attempted and retried up to 3 times when it fails, so a sandbox is left
\* behind only after 3 failed attempts; and the teardown, failing or not,
\* does not change the task's row.
C27_TeardownRetried ==
    [][(wf.pc = "finally" /\ wf'.pc = "done") =>
          /\ wf'.cleanups >= 1
          /\ wf'.sandbox => wf'.cleanups = cleanup_attempts
          /\ task' = task]_vars

\* ------------------------------------------------------------------ the user who decides
\* A new task and a user who reviews the plan and starts the implementation
\* through the HTTP handlers (approve or revise, then start), who neither
\* answers questions nor cancels nor retries, and who merges the pull request.
\* The statuses of the row are listed as they replace one another.  The
\* workflow, the job callback and the main thread are scheduled fairly, and
\* the user does merge an open pull request.

InitHappy ==
    /\ task \in {t \in NewTasks : t.status = "pending"}
    /\ wf = FreshWorkflow
    /\ topics = [t \in Topics |-> <<>>]
    /\ mtInbox = <<>>
    /\ inbox = <<>>
    /\ api = {}
    /\ jobs = {}
    /\ forge = InitForge(task)
    /\ hist = [InitHist EXCEPT !.tracing = TRUE, !.statuses = <<task.status>>]
    /\ mt = {MainThreadRow(TaskUser)}
    /\ bus = <<>>
    /\ branch = <<>>

WorkerHappy ==
    \/ WorkflowStart \/ SetupNamespace
    \/ PlanningWrite \/ CreateIssue \/ IssueWrite \/ PlanLoop
    \/ JobSpawn \/ JobRecv \/ JobTimeout
    \/ PlanResult \/ PostQuestions \/ QuestionsRecvTimeout \/ QuestionsForge
    \/ PostPlan \/ PlanReviewWrite \/ PlanRecv \/ PlanRecvTimeout
    \/ PlanReactions \/ PlanComments \/ PlanDecide \/ ReadyWrite
    \/ StartRecv \/ StartTimeout
    \/ Implementing \/ ImplementResult \/ CiGiveUp \/ CiSleep \/ CiCheck
    \/ UnderReview \/ ReviewCheck
    \/ Except \/ Finally

NextHappy ==
    \/ WorkerHappy \/ Job \/ handle_worker_result
    \/ \E action \in {"approve", "revise"} : DecisionRead("approve", action)
    \/ DecisionRead("start", "start")
    \/ \E r \in api : DecisionSend(r)
    \/ \E r \in api : DecisionWrite(r)
    \/ MergePR

SpecHappy ==
    /\ InitHappy /\ [][NextHappy]_vars
    /\ WF_vars(WorkerHappy) /\ WF_vars(Job) /\ WF_vars(handle_worker_result)
    /\ WF_vars(MergePR)

\* the run of a planned task in which nothing has gone wrong so far: no job
\* fault, no exception, no questions, no revision, no failed check, the pull
\* request not closed
HappyRun ==
    /\ ~task.skip_plan
    /\ hist.faults = 0 /\ wf.err = "none"
    /\ ~wf.questions /\ wf.plan_iteration <= 1
    /\ hist.nFix = 0 /\ forge.pr # "closed"

\* C28: for a planned task whose plan has no questions, that is approved and
\* started, whose implement job has delivered its pull request, with checks
\* that pass and the pull request merged, the statuses observed are exactly
\* pending, planning, waiting_plan_review, ready_to_implement, implementing,
\* under_review, completed.
C28_HappyPathStatuses ==
    (HappyRun /\ wf.pc = "implement_result" /\ forge.pr = "open")
       ~> \/ ~HappyRun
          \/ hist.statuses = <<"pending", "planning", "waiting_plan_review",
                               "ready_to_implement", "implementing",
                               "under_review", "completed">>

\* C29: when a revise plan_response is followed by an approve, the plan job is
\* launched exactly twice and, once the workflow has made the task
\* ready_to_implement, the statuses observed since the first plan are
\* waiting_plan_review, planning, waiting_plan_review, ready_to_implement.
C29_ReviseThenApprove ==
    [][(/\ wf.pc = "ready_write" /\ wf'.pc = "start_wait"
        /\ wf.plan_iteration = 2 /\ wf.response = "approve"
        /\ hist.faults = 0)
          => /\ hist.launched["plan"] = 2
             /\ hist'.statuses = <<"pending", "planning", "waiting_plan_review",
                                   "planning", "waiting_plan_review",
                                   "ready_to_implement">>]_vars

\* the number of inbox entries (queue items) of a kind created for the task
Entries(kind) == Cardinality({i \in DOMAIN inbox : inbox[i] = kind})

\* C30: in the happy path of a task (a planned task approved and started, the
\* pull request of its implement job passing its checks and merged) exactly
\* one inbox entry of kind code_ready and exactly one entry for the completed
\* result are created for it.
C30_HappyPathInbox ==
    (HappyRun /\ wf.pc = "implement_result" /\ forge.pr = "open")
       ~> \/ ~HappyRun
          \/ /\ Entries("code_ready") = 1
             /\ Entries(QueueItemFor("completed")) = 1

\* C31: for every worker_result the main thread takes from its queue,
\* whatever its status, it adds an inbox entry.
C31_EveryResultHasEntry ==
    [][(mtInbox # <<>> /\ mtInbox' = Tail(mtInbox)
        /\ Head(mtInbox).type = "worker_result")
          => Len(inbox') = Len(inbox) + 1]_vars

\* ------------------------------------------------------------------ main-thread messages
\* The main thread's loop over every type of message, next to a skip_plan task
\* whose workflow runs: the user answers inbox entries (respond_to_queue_item
\* sends a queue_response), and a message of a type the loop does not know
\* arrives.  The workflow goes on through its review loop until the pull
\* request is merged; the workflows, the job callback and the merge are
\* scheduled fairly.

\* DBOS.send to main-thread-<user_id>: a queue_response for an inbox entry of
\* the task, or a message of another type
SendToMainThread(m) ==
    /\ hist.nsent < MaxSends
    /\ mtInbox' = Append(mtInbox, m)
    /\ hist' = [hist EXCEPT !.nsent = @ + 1]
    /\ UNCHANGED <<task, wf, topics, inbox, api, jobs, forge, mt, bus, branch>>

\* handle_queue_response: a routing suggestion answered with "Route to this
\* task" sends additional_context to the task's workflow and adds a
\* notification; any other entry bound to a task forwards a human_response.
\* Both DBOS.send calls name no topic.
handle_queue_response ==
    /\ \E w \in mt : w.user_id = TaskUser /\ w.status = "running"
    /\ mtInbox # <<>> /\ Head(mtInbox).type = "queue_response"
    /\ IF Head(mtInbox).item_type = "routing_suggestion"
       THEN /\ topics' = [topics EXCEPT ![TOPIC_DEFAULT] =
                             Append(@, [type |-> "additional_context"])]
            /\ inbox' = Append(inbox, "notification")
       ELSE /\ topics' = [topics EXCEPT ![TOPIC_DEFAULT] =
                             Append(@, [type |-> "human_response"])]
            /\ UNCHANGED inbox
    /\ mtInbox' = Tail(mtInbox)
    /\ UNCHANGED <<task, wf, api, jobs, forge, hist, mt, bus, branch>>

\* the else branch of the loop: logger.warning("Unknown message type")
MainThreadUnknown ==
    /\ \E w \in mt : w.user_id = TaskUser /\ w.status = "running"
    /\ mtInbox # <<>>
    /\ Head(mtInbox).type \notin {"user_message", "queue_response", "worker_result"}
    /\ mtInbox' = Tail(mtInbox)
    /\ UNCHANGED <<task, wf, topics, inbox, api, jobs, forge, hist, mt, bus, branch>>

NextMsg ==
    \/ NextCI \/ UnderReview \/ ReviewCheck \/ MergePR
    \/ \E item_type \in {"routing_suggestion", "question"} :
         SendToMainThread([type |-> "queue_response", item_type |-> item_type])
    \/ SendToMainThread([type |-> "heartbeat"])
    \/ handle_queue_response
    \/ MainThreadUnknown

SpecMsg ==
    /\ InitCI /\ [][NextMsg]_vars
    /\ WF_vars(WorkerCI) /\ WF_vars(Job) /\ WF_vars(handle_worker_result)
    /\ WF_vars(handle_queue_response) /\ WF_vars(MainThreadUnknown)
    /\ WF_vars(UnderReview) /\ WF_vars(ReviewCheck) /\ WF_vars(MergePR)

\* C32: a message whose type is none of user_message, queue_response and
\* worker_result makes the main thread add an error-class inbox entry.
C32_UnknownTypeGivesError ==
    [][(/\ mtInbox # <<>> /\ mtInbox' = Tail(mtInbox)
        /\ Head(mtInbox).type \notin {"user_message", "queue_response", "worker_result"})
          => inbox' = Append(inbox, "error")]_vars

\* C40: every message the main thread forwards to a worker workflow (routed
\* additional context, the human response to an inbox entry of the task) is
\* eventually received by that workflow.
C40_ForwardedIsReceived ==
    (topics[TOPIC_DEFAULT] # <<>>) ~> (topics[TOPIC_DEFAULT] = <<>>)

\* C33: in every state of the row, pending_questions is non-empty if and only
\* if the status is waiting_questions.
C33_QuestionsIffWaiting ==
    task.pending_questions <=> task.status = "waiting_questions"

QUEUE_MAXSIZE == 0

MaxSubscribers == 2
MaxQueued == 3

\* asyncio.Queue.put_nowait: QueueFull (the event is dropped) when the queue
\* is full, and a queue whose maxsize is not positive is never full
put_nowait(q, event) ==
    IF q.maxsize > 0 /\ Len(q.items) >= q.maxsize
    THEN q
    ELSE [q EXCEPT !.items = Append(@, event)]

subscribe_user ==
    /\ Len(bus) < MaxSubscribers
    /\ bus' = Append(bus, [maxsize |-> QUEUE_MAXSIZE, items |-> <<>>])
    /\ UNCHANGED <<task, wf, topics, mtInbox, inbox, api, jobs, forge, hist, mt, branch>>

\* publish_to_user: put_nowait on every queue of the user
publish_to_user(event) ==
    /\ bus # <<>>
    /\ \A i \in DOMAIN bus : Len(bus[i].items) < MaxQueued
    /\ bus' = [i \in DOMAIN bus |-> put_nowait(bus[i], event)]
    /\ UNCHANGED <<task, wf, topics, mtInbox, inbox, api, jobs, forge, hist, mt, branch>>

\* event_stream: `await queue.get()` of one subscriber
event_stream(i) ==
    /\ bus[i].items # <<>>
    /\ bus' = [bus EXCEPT ![i].items = Tail(@)]
    /\ UNCHANGED <<task, wf, topics, mtInbox, inbox, api, jobs, forge, hist, mt, branch>>

NextBus ==
    \/ subscribe_user
    \/ \E event \in {"task:updated", "inbox:updated"} : publish_to_user(event)
    \/ \E i \in DOMAIN bus : event_stream(i)

SpecBus == Init /\ [][NextBus]_vars

\* C35: publishing never blocks on a slow subscriber: every subscriber queue is
\* bounded (it has a capacity and never holds more), and an event that does
\* not fit is dropped for that subscriber only.
C35_BoundedQueues ==
    \A i \in DOMAIN bus :
       bus[i].maxsize > 0 /\ Len(bus[i].items) <= bus[i].maxsize

\* ------------------------------------------------------------------ branch names
\* github_pr.generate_branch_name as worker_task_workflow calls it when a plan
\* is approved.  A description is a list of words separated by single blanks;
\* a word is the stop word "a" or a run of the letter "x".

MaxWords == 9
WordLengths == {5, 12}

\* str.split(sep) without its empty parts
RECURSIVE Split(_, _)
Split(str, sep) ==
    IF str = <<>> THEN <<>>
    ELSE IF Head(str) = sep THEN Split(Tail(str), sep)
    ELSE LET ends == {i \in 1 .. Len(str) : str[i] = sep}
             n == IF ends = {} THEN Len(str)
                  ELSE (CHOOSE i \in ends : \A j \in ends : i <= j) - 1
         IN <<SubSeq(str, 1, n)>> \o Split(SubSeq(str, n + 1, Len(str)), sep)

\* sep.join(words)
RECURSIVE Join(_, _)
Join(words, sep) ==
    IF words = <<>> THEN <<>>
    ELSE IF Len(words) = 1 THEN Head(words)
    ELSE Head(words) \o <<sep>> \o Join(Tail(words), sep)

\* generate_branch_name: the prefix of the task type, the title slugified,
\* without stop words, at most 8 words, and `slug[:50].rsplit("-", 1)[0]` when
\* it is longer than 50 characters
generate_branch_name(issue_number, title, task_type) ==
    LET prefix == CASE task_type \in {"bugfix", "bug", "fix"} -> "fix"
                    [] task_type \in {"refactor", "docs", "test", "chore"} -> task_type
                    [] OTHER -> "feature"
        hyphened == [i \in 1 .. Len(title) |-> IF title[i] = " " THEN "-" ELSE title[i]]
        words == SelectSeq(Split(hyphened, "-"), LAMBDA w : w # <<"a">>)
        slug == Join(SubSeq(words, 1, IF Len(words) < 8 THEN Len(words) ELSE 8), "-")
        cut == SubSeq(slug, 1, 50)
        hyphens == {i \in 1 .. Len(cut) : cut[i] = "-"}
    IN [prefix |-> prefix, issue_number |-> issue_number,
        slug |-> IF Len(slug) > 50
                 THEN IF hyphens = {} THEN cut
                      ELSE SubSeq(cut, 1, (CHOOSE i \in hyphens : \A j \in hyphens : i >= j) - 1)
                 ELSE slug]

InitBranch ==
    /\ task \in {t \in NewTasks : t.status = "pending" /\ ~t.skip_plan}
    /\ wf = FreshWorkflow
    /\ topics = [t \in Topics |-> <<>>]
    /\ mtInbox = <<>>
    /\ inbox = <<>>
    /\ api = {}
    /\ jobs = {}
    /\ forge = InitForge(task)
    /\ hist = InitHist
    /\ mt = {MainThreadRow(TaskUser)}
    /\ bus = <<>>
    /\ \E n \in 1 .. MaxWords :
         \E words \in [1 .. n -> {<<"a">>} \cup {[i \in 1 .. k |-> "x"] : k \in WordLengths}] :
           \E task_type \in {"feature", "bugfix", "other"} :
             branch = [description |-> words, task_type |-> task_type,
                       issue_number |-> 7,
                       branch_name |-> [prefix |-> "none", issue_number |-> 0, slug |-> <<>>]]

\* worker_task_workflow once the plan is approved: the title it passes is
\* task.description[:50]
generate_branch_name_step ==
    /\ branch.branch_name.prefix = "none"
    /\ LET description == Join(branch.description, " ")
           title == SubSeq(description, 1,
                           IF Len(description) < 50 THEN Len(description) ELSE 50)
       IN branch' = [branch EXCEPT !.branch_name =
                       generate_branch_name(branch.issue_number, title, branch.task_type)]
    /\ UNCHANGED <<task, wf, topics, mtInbox, inbox, api, jobs, forge, hist, mt, bus>>

SpecBranch == InitBranch /\ [][generate_branch_name_step]_vars

\* C36: the branch name recorded for a task is <prefix>/<issue_number>-<slug>,
\* the slug is at most 50 characters long and is made of whole words of the
\* task's title: it ends where one of the title's words ends, never inside one.
C36_BranchNameAtWordBoundary ==
    branch.branch_name.prefix # "none" =>
        LET kept == SelectSeq(branch.description, LAMBDA w : w # <<"a">>)
        IN /\ branch.branch_name.prefix
                = (IF branch.task_type = "bugfix" THEN "fix" ELSE "feature")
           /\ branch.branch_name.issue_number = branch.issue_number
           /\ Len(branch.branch_name.slug) <= 50
           /\ \E k \in 0 .. Len(kept) :
                branch.branch_name.slug = Join(SubSeq(kept, 1, k), "-")

\* C37: a job_result the workflow takes as the outcome of a job attempt comes
\* from the job launched for that attempt: the job of the current mode and
\* iteration, launched by the current attempt of run_job_with_retry, and not
\* a late result of an attempt that timed out, a second callback of one job,
\* or the result of a job of an earlier phase.
C37_ResultOfThisAttempt ==
    [][(wf.pc = "job_wait" /\ topics[TOPIC_JOB_RESULT] # <<>>
        /\ topics'[TOPIC_JOB_RESULT] = Tail(topics[TOPIC_JOB_RESULT]))
          => Head(topics[TOPIC_JOB_RESULT]).job
               = <<wf.mode, JobIteration(wf), wf.attempt>>]_vars

\* C38: whenever the worker workflow returns, the status in the task's row is
\* terminal (completed, cancelled or failed): no task is left in a status that
\* is not terminal with no workflow to drive it.
C38_ReturnsWithTerminalStatus ==
    [][(wf.pc = "finally" /\ wf'.pc = "done") => task'.status \in Terminal]_vars

\* ------------------------------------------------------------------ review comments
\* A task without planning through its review loop, with a reviewer who may
\* comment again while the feedback job of an earlier comment is at work.

\* a review comment made after get_feedback_context has fetched the comments
\* of this pass and before `last_check = now`
CommentDuringFeedback ==
    /\ forge.pr = "open" /\ ~hist.unhandled
    /\ \/ wf.pc \in {"feedback_write", "feedback_done"}
       \/ wf.mode = "feedback" /\ wf.pc \in {"job_spawn", "job_wait"}
    /\ forge' = [forge EXCEPT !.feedback = TRUE]
    /\ hist' = [hist EXCEPT !.unhandled = TRUE]
    /\ UNCHANGED <<task, wf, topics, mtInbox, inbox, api, jobs, mt, bus, branch>>

NextReview ==
    \/ WorkerCI \/ UnderReview \/ ReviewCheck \/ FeedbackWrite \/ FeedbackDone
    \/ Job \/ handle_worker_result
    \/ MergePR \/ ReviewComment \/ CommentDuringFeedback

SpecReview == InitCI /\ [][NextReview]_vars

\* C39: every actionable comment made on the pull request during the review
\* loop, one made while a feedback job runs included, gets into the feedback
\* of a later feedback job: as long as no job has been given it, it is newer
\* than last_check, so advancing last_check never skips it.
C39_NoCommentSkipped == hist.unhandled => forge.feedback

====
